---- MODULE Spec2Model ----
(***************************************************************************)
(* A model of make_qr.py: the command-line QR code generator.              *)
(*                                                                         *)
(* Python strings are sequences of one-character strings, so that strip(), *)
(* upper(), lower(), find() and slicing are computed and not assumed.      *)
(* Optional values (Optional[Path], Optional[str]) are records             *)
(* [isNone, v].  The external collaborators (the HTTP exchange, the QR     *)
(* encoder, the file system) answer nondeterministically.                  *)
(***************************************************************************)
EXTENDS Integers, Sequences, FiniteSets, TLC

VARIABLES
    argv,       \* the command line, as parse_args reads it
    pc,         \* position in main
    png_path,   \* main's local png_path (line 153)
    svg_path,   \* main's local svg_path (line 154)
    cfg,        \* <<>> until QRConfig is built (line 168), then <<QRConfig>>
    probes,     \* the calls of check_reachability, with what the network did
    qr_calls,   \* the calls of the external QR encoder
    dirs,       \* directories that exist
    files,      \* files written by this run: records [path, fmt, data]
    gen,        \* what each generation did: [png, svg]
    out_png,    \* main's local out_png (line 179)
    out_svg,    \* main's local out_svg (line 180)
    out,        \* the lines printed, in order: [stream, tag, text]
    status      \* how the run ended: [kind, code]

vars == <<argv, pc, png_path, svg_path, cfg, probes, qr_calls, dirs, files,
          gen, out_png, out_svg, out, status>>

---------------------------------------------------------------------------
(* Bounds of the model *)

\* Longest tail appended to a URL head when URLs are enumerated.
MaxTail == 3
\* Longest error-correction selector handed to _map_ec_level directly.
MaxEcLen == 2
\* --box-size ranges over 1..MaxBoxSize.
MaxBoxSize == 2
\* --border ranges over 0..MaxBorder.
MaxBorder == 1

---------------------------------------------------------------------------
(* Python str *)

RECURSIVE SeqsUpTo(_, _)
\* All sequences over S of length at most n.
SeqsUpTo(S, n) ==
    IF n = 0 THEN {<<>>}
    ELSE LET shorter == SeqsUpTo(S, n - 1)
         IN  shorter \cup {Append(s, c) : s \in {t \in shorter : Len(t) = n - 1}, c \in S}

Whitespace == {" "}

RECURSIVE LStrip(_)
\* str.lstrip(): leading whitespace removed.
LStrip(s) ==
    IF s # <<>> /\ Head(s) \in Whitespace THEN LStrip(Tail(s)) ELSE s

RECURSIVE RStrip(_)
\* str.rstrip(): trailing whitespace removed.
RStrip(s) ==
    IF s # <<>> /\ s[Len(s)] \in Whitespace THEN RStrip(SubSeq(s, 1, Len(s) - 1)) ELSE s

\* str.strip()
Strip(s) == LStrip(RStrip(s))

UpperOf(c) ==
    CASE c = "l" -> "L" [] c = "m" -> "M" [] c = "q" -> "Q" [] c = "h" -> "H"
      [] c = "x" -> "X" [] c = "t" -> "T" [] c = "p" -> "P" [] c = "s" -> "S"
      [] c = "f" -> "F" [] c = "a" -> "A" [] OTHER -> c

LowerOf(c) ==
    CASE c = "L" -> "l" [] c = "M" -> "m" [] c = "Q" -> "q" [] c = "H" -> "h"
      [] c = "X" -> "x" [] c = "T" -> "t" [] c = "P" -> "p" [] c = "S" -> "s"
      [] c = "F" -> "f" [] c = "A" -> "a" [] OTHER -> c

\* str.upper()
Upper(s) == [i \in 1..Len(s) |-> UpperOf(s[i])]

\* str.lower()
Lower(s) == [i \in 1..Len(s) |-> LowerOf(s[i])]

\* str.find(c) + 1: the first index of c in s, 0 when absent.
Find(s, c) ==
    IF \E i \in 1..Len(s) : s[i] = c
    THEN CHOOSE i \in 1..Len(s) : s[i] = c /\ \A j \in 1..(i - 1) : s[j] # c
    ELSE 0

\* c in s
Has(s, c) == \E i \in 1..Len(s) : s[i] = c

\* s[i:] with i counted from 1.
From(s, i) == SubSeq(s, i, Len(s))

\* t occurs in s as a contiguous run.
Contains(s, t) ==
    \E i \in 1..(Len(s) - Len(t) + 1) : SubSeq(s, i, i + Len(t) - 1) = t

\* repr() of a str holding no quote, backslash or non-printable character.
Repr(s) == <<"'">> \o s \o <<"'">>

---------------------------------------------------------------------------
(* urllib.parse.urlparse, as validate_url uses it (CPython 3.11) *)

Letters == {"h", "t", "p", "s", "f", "a", "H", "T", "P", "S"}
Digits == {"1"}
\* urllib.parse.scheme_chars
SchemeChars == Letters \cup Digits \cup {"+", "-", "."}
HexChars == {"a", "f", "A", "1"}

\* The maximal runs of hexadecimal digits of h are at most four long.
HexRunsShort(h) ==
    \A i \in 1..(Len(h) - 4) : \E j \in i..(i + 4) : h[j] = ":"

\* ipaddress.ip_address(h) is an IPv6Address, for h of fewer than eight groups:
\* hexadecimal groups of at most four digits and exactly one "::".
IsIPv6(h) ==
    /\ \A i \in 1..Len(h) : h[i] \in HexChars \cup {":"}
    /\ Cardinality({i \in 1..(Len(h) - 1) : h[i] = ":" /\ h[i + 1] = ":"}) = 1
    /\ h[1] = ":" => h[2] = ":"
    /\ h[Len(h)] = ":" => h[Len(h) - 1] = ":"
    /\ HexRunsShort(h)

\* _splitnetloc(url, 2): the authority runs to the first of "/", "?", "#".
NetlocEnd(rest) ==
    LET stops == {i \in 3..Len(rest) : rest[i] \in {"/", "?", "#"}}
    IN  IF stops = {} THEN Len(rest)
        ELSE (CHOOSE i \in stops : \A j \in stops : i <= j) - 1

\* netloc.partition("[")[2].partition("]")[0]
BracketedHost(netloc) ==
    LET after == From(netloc, Find(netloc, "[") + 1)
        close == Find(after, "]")
    IN  IF close = 0 THEN after ELSE SubSeq(after, 1, close - 1)

\* urlparse(url): [raised, msg, scheme, netloc].  Leading spaces are stripped,
\* the scheme is what precedes the first ":" when it is made of scheme
\* characters and starts with a letter, and is lower-cased; the authority
\* follows "//".  A ValueError is raised for unbalanced brackets in the
\* authority and for a bracketed host that is no IPv6 address.
urlparse(url) ==
    LET u == LStrip(url)
        i == Find(u, ":")
        hasScheme == /\ i > 1
                     /\ u[1] \in Letters
                     /\ \A k \in 1..(i - 1) : u[k] \in SchemeChars
        scheme == IF hasScheme THEN Lower(SubSeq(u, 1, i - 1)) ELSE <<>>
        rest == IF hasScheme THEN From(u, i + 1) ELSE u
        hasNetloc == Len(rest) >= 2 /\ rest[1] = "/" /\ rest[2] = "/"
        netloc == IF hasNetloc THEN SubSeq(rest, 3, NetlocEnd(rest)) ELSE <<>>
    IN  IF Has(netloc, "[") # Has(netloc, "]")
        THEN [raised |-> TRUE, msg |-> <<"Invalid IPv6 URL">>,
              scheme |-> <<>>, netloc |-> <<>>]
        ELSE IF Has(netloc, "[") /\ ~IsIPv6(BracketedHost(netloc))
        THEN [raised |-> TRUE,
              msg |-> Repr(BracketedHost(netloc))
                        \o <<" does not appear to be an IPv4 or IPv6 address">>,
              scheme |-> <<>>, netloc |-> <<>>]
        ELSE [raised |-> FALSE, msg |-> <<>>, scheme |-> scheme, netloc |-> netloc]

HTTP == <<"h", "t", "t", "p">>
HTTPS == <<"h", "t", "t", "p", "s">>

\* validate_url with the authority test dropped.
validate_url_no_netloc(url) ==
    LET parsed == urlparse(url)
    IN  IF parsed.raised
        THEN [raised |-> TRUE, msg |-> parsed.msg]
        ELSE IF parsed.scheme \notin {HTTP, HTTPS}
        THEN [raised |-> TRUE,
              msg |-> <<"URL invalide: ">> \o Repr(url)
                        \o <<". Exemple valide: https://exemple.com">>]
        ELSE [raised |-> FALSE, msg |-> <<>>]

\* validate_url(url): [raised, msg], msg being the text of the ValueError.
validate_url(url) ==
    LET parsed == urlparse(url)
    IN  IF parsed.raised
        THEN [raised |-> TRUE, msg |-> parsed.msg]
        ELSE IF parsed.scheme \notin {HTTP, HTTPS} \/ parsed.netloc = <<>>
        THEN [raised |-> TRUE,
              msg |-> <<"URL invalide: ">> \o Repr(url)
                        \o <<". Exemple valide: https://exemple.com">>]
        ELSE [raised |-> FALSE, msg |-> <<>>]

---------------------------------------------------------------------------
(* Optional values and pathlib.Path *)

None == [isNone |-> TRUE, v |-> <<>>]
Some(x) == [isNone |-> FALSE, v |-> x]

\* The working directory of the process.
Cwd == <<"/", "w">>
\* The directories that exist before the run.
InitDirs == {<<"/">>, Cwd}

\* Path(a).resolve(): an absolute path is kept, a relative one is joined to
\* the working directory.  The text of a is not stripped.
Resolve(a) == IF Head(a) = "/" THEN a ELSE Cwd \o <<"/">> \o a

\* Lines 153-154 with the blank test dropped: only "" disables an output.
PathOfArg_no_strip(a) == IF a # <<>> THEN Some(Resolve(a)) ELSE None

\* Lines 153-154: Path(a).resolve() if a.strip() else None
PathOfArg(a) == IF Strip(a) # <<>> THEN Some(Resolve(a)) ELSE None

\* The directories path.parent.mkdir(parents=True, exist_ok=True) makes exist:
\* the parent of the absolute path p and every ancestor of it.
ParentDirs(p) ==
    {<<"/">>} \cup {SubSeq(p, 1, k - 1) : k \in {i \in 2..Len(p) : p[i] = "/"}}

---------------------------------------------------------------------------
(* parse_args *)

\* choices=list("LMQH") of --ec-level (line 142)
EcChoices == {<<"L">>, <<"M">>, <<"Q">>, <<"H">>}

\* What argparse does with the command line: "help" prints the usage and
\* exits 0 (-h), "error" reports a usage error and exits 2 (an --ec-level
\* outside the choices), "ok" returns the namespace.  With both -h and a bad
\* --ec-level the one that comes first on the command line decides.
ArgparseOutcomes(a) ==
    {o \in {"help", "error", "ok"} :
        \/ o = "help" /\ a.help
        \/ o = "error" /\ a.ec_level \notin EcChoices
        \/ o = "ok" /\ ~a.help /\ a.ec_level \in EcChoices}

---------------------------------------------------------------------------
(* check_reachability *)

\* What the network does with the HEAD request: the final status of the
\* exchange (after the redirects urllib follows), or a failure.
NetOutcomes ==
    [kind : {"status"}, status : {200, 204, 304, 404}]
      \cup [kind : {"timeout", "connection_refused"}, status : {0}]

\* urllib.request.urlopen(req, timeout): [raised, status].  The default opener
\* returns the response only for a final status in [200, 300); for any other
\* final status its HTTPErrorProcessor raises HTTPError, and a failure of the
\* exchange raises URLError or a timeout.
urlopen(net) ==
    IF net.kind = "status" /\ 200 <= net.status /\ net.status < 300
    THEN [raised |-> FALSE, status |-> net.status]
    ELSE [raised |-> TRUE, status |-> net.status]

\* check_reachability(url, timeout): [raised, value].  `except Exception`
\* turns every exception of the request into False.
check_reachability(net) ==
    LET resp == urlopen(net)
    IN  IF resp.raised
        THEN [raised |-> FALSE, value |-> FALSE]
        ELSE [raised |-> FALSE, value |-> 200 <= resp.status /\ resp.status < 400]

\* Line 162 with the flag ignored.
ShouldCheck_always(a) == TRUE

\* Line 162: if not args.no_check
ShouldCheck(a) == ~a.no_check

\* A main that gives up when the site does not answer.
AfterCheck_gated(reachable) == IF reachable THEN "config" ELSE "report"

\* Lines 163-168: whatever reachable is, main goes on to build the QRConfig.
AfterCheck(reachable) == "config"

---------------------------------------------------------------------------
(* _map_ec_level and the encoder calls *)

\* The mapping of lines 60-65, from the letter to the encoder's constant.
EcConstant(l) ==
    CASE l = <<"L">> -> "ERROR_CORRECT_L"
      [] l = <<"M">> -> "ERROR_CORRECT_M"
      [] l = <<"Q">> -> "ERROR_CORRECT_Q"
      [] l = <<"H">> -> "ERROR_CORRECT_H"

\* _map_ec_level without .upper().
map_ec_level_no_upper(level) ==
    LET l == Strip(IF level.isNone \/ level.v = <<>> THEN <<"Q">> ELSE level.v)
    IN  IF l \notin EcChoices
        THEN [raised |-> TRUE, ec |-> "none"]
        ELSE [raised |-> FALSE, ec |-> EcConstant(l)]

\* _map_ec_level(level): [raised, ec].  level is an Optional[str];
\* (level or "Q").strip().upper() is looked up in the mapping.
map_ec_level(level) ==
    LET l == Upper(Strip(IF level.isNone \/ level.v = <<>> THEN <<"Q">> ELSE level.v))
    IN  IF l \notin EcChoices
        THEN [raised |-> TRUE, ec |-> "none"]
        ELSE [raised |-> FALSE, ec |-> EcConstant(l)]

\* An encoder payload with its leading blanks trimmed.
QRData_trimmed(c) == LStrip(c.url)

\* qr.add_data(cfg.url) (lines 107 and 126)
QRData(c) == c.url

\* What the encoder and the file system do with one generation: "ok", or
\* the encoder raises (QRCode, add_data, make, make_image), or mkdir raises,
\* or save raises before the file exists.
GenOutcomes == {"ok", "encode_error", "mkdir_error", "save_error"}

\* make_image's arguments: the PNG takes the colours of the config, the SVG
\* is made by image_factory=SvgImage with no colour.
ImageStyle(fmt, c) ==
    IF fmt = "png"
    THEN [fill_color |-> c.fill_color, back_color |-> c.back_color]
    ELSE [fill_color |-> "SvgImage", back_color |-> "SvgImage"]

---------------------------------------------------------------------------
(* How a run ends *)

Running == [kind |-> "running", code |-> -1]
\* main returns code, and line 196 raises SystemExit(code).
Returned(code) == [kind |-> "returned", code |-> code]
\* argparse raises SystemExit(code) inside parse_args.
SysExit(code) == [kind |-> "sysexit", code |-> code]
\* An exception leaves main: the interpreter prints the traceback and the
\* process ends with status 1.
Uncaught == [kind |-> "raised", code |-> 1]

Line(stream, tag, text) == [stream |-> stream, tag |-> tag, text |-> text]

\* A report that always answers 0.
ReportCode_zero(p, s) == 0

\* Lines 187-192: 1 when neither output was produced, else 0.
ReportCode(p, s) == IF p.isNone /\ s.isNone THEN 1 ELSE 0

---------------------------------------------------------------------------
(* The inputs *)

\* The characters URLs are made of: a host letter, the delimiters urlparse
\* looks for, the brackets of an IPv6 host and a blank.
UrlChars == {"a", ":", "/", "?", "[", "]", " "}

\* What an enumerated URL starts with.
UrlHeads ==
    { <<>>,
      <<"h", "t", "t", "p">>,
      <<"h", "t", "t", "p", ":">>,
      <<"h", "t", "t", "p", ":", "/", "/">>,
      <<"h", "t", "t", "p", "s", ":", "/", "/">>,
      <<"H", "t", "t", "P", ":", "/", "/">>,
      <<"f", "t", "p", ":", "/", "/">>,
      <<" ", "h", "t", "t", "p", ":", "/", "/">>,
      <<"1", "h", "t", "t", "p", ":", "/", "/">> }

\* The URLs validate_url is tried on.
Urls == {h \o t : h \in UrlHeads, t \in SeqsUpTo(UrlChars, MaxTail)}

\* The URLs main is run on: "https://a", "HTTP://a/a", " http://a" (accepted),
\* "a" and "ftp://a" (no http scheme), "https://" (no host), "http://[a"
\* (urlparse raises).
MainUrls ==
    { <<"h", "t", "t", "p", "s", ":", "/", "/", "a">>,
      <<"H", "T", "T", "P", ":", "/", "/", "a", "/", "a">>,
      <<" ", "h", "t", "t", "p", ":", "/", "/", "a">>,
      <<"a">>,
      <<"f", "t", "p", ":", "/", "/", "a">>,
      <<"h", "t", "t", "p", "s", ":", "/", "/">>,
      <<"h", "t", "t", "p", ":", "/", "/", "[", "a">> }

\* The values of --png and --svg: "", " " (blank), "o", "d/o", "/t/o".
PathArgs ==
    { <<>>, <<" ">>, <<"o">>, <<"d", "/", "o">>, <<"/", "t", "/", "o">> }

\* The values of --ec-level on the command line.
EcArgs == EcChoices \cup {<<"q">>, <<"X">>}

\* The selectors _map_ec_level is tried on when called directly.
EcChars == {"L", "m", "Q", "h", "x", " "}
EcLevels == {None} \cup {Some(l) : l \in SeqsUpTo(EcChars, MaxEcLen)}

\* --timeout, in seconds.
Timeouts == {5}

Argvs ==
    [url : MainUrls, png : PathArgs, svg : PathArgs, ec_level : EcArgs,
     box_size : 1..MaxBoxSize, border : 0..MaxBorder, no_check : BOOLEAN,
     timeout : Timeouts, help : BOOLEAN]

\* QRConfig(...) of lines 168-177; fill_color and back_color keep the
\* defaults of lines 50-51.
QRConfig(url, box_size, border, ec_level, png, svg, check_online, timeout_s) ==
    [url |-> url, box_size |-> box_size, border |-> border, ec_level |-> ec_level,
     fill_color |-> "black", back_color |-> "white",
     png_path |-> png, svg_path |-> svg,
     check_online |-> check_online, timeout_s |-> timeout_s]

---------------------------------------------------------------------------
(* main *)

Fresh ==
    /\ probes = <<>>
    /\ qr_calls = <<>>
    /\ dirs = InitDirs
    /\ files = {}
    /\ gen = [png |-> "none", svg |-> "none"]
    /\ out_png = None
    /\ out_svg = None
    /\ out = <<>>
    /\ status = Running

\* The process starts main with some command line.
Init ==
    /\ argv \in Argvs
    /\ pc = "parse"
    /\ png_path = None
    /\ svg_path = None
    /\ cfg = <<>>
    /\ Fresh

\* Lines 151-154: parse_args, then the two output paths.
ParseArgs ==
    /\ pc = "parse"
    /\ \E o \in ArgparseOutcomes(argv) :
         CASE o = "help" ->
                /\ out' = Append(out, Line("stdout", "usage", <<"usage">>))
                /\ status' = SysExit(0)
                /\ pc' = "done"
                /\ UNCHANGED <<png_path, svg_path>>
           [] o = "error" ->
                /\ out' = Append(out, Line("stderr", "usage",
                                           <<"invalid choice: ">> \o Repr(argv.ec_level)))
                /\ status' = SysExit(2)
                /\ pc' = "done"
                /\ UNCHANGED <<png_path, svg_path>>
           [] o = "ok" ->
                /\ png_path' = PathOfArg(argv.png)
                /\ svg_path' = PathOfArg(argv.svg)
                /\ pc' = "validate"
                /\ UNCHANGED <<out, status>>
    /\ UNCHANGED <<argv, cfg, probes, qr_calls, dirs, files, gen, out_png, out_svg>>

\* Lines 156-160: validate_url, its ValueError printed and answered by 2.
Validate ==
    /\ pc = "validate"
    /\ LET r == validate_url(argv.url)
       IN  IF r.raised
           THEN /\ out' = Append(out, Line("stderr", "ERREUR", <<"[ERREUR] ">> \o r.msg))
                /\ status' = Returned(2)
                /\ pc' = "done"
           ELSE /\ pc' = "check"
                /\ UNCHANGED <<out, status>>
    /\ UNCHANGED <<argv, png_path, svg_path, cfg, probes, qr_calls, dirs, files,
                   gen, out_png, out_svg>>

\* Lines 162-166: the optional reachability probe and its line.
CheckOnline ==
    /\ pc = "check"
    /\ IF ShouldCheck(argv)
       THEN \E net \in NetOutcomes :
              LET r == check_reachability(net)
              IN  /\ probes' = Append(probes, [url |-> argv.url, timeout |-> argv.timeout,
                                             net |-> net, raised |-> r.raised,
                                             value |-> r.value])
                  /\ IF r.raised
                     THEN /\ status' = Uncaught
                          /\ pc' = "done"
                          /\ out' = Append(out, Line("stderr", "Traceback", <<"urlopen">>))
                     ELSE /\ out' = Append(out, Line("stdout", "Info",
                                 <<"[Info] Vérification en ligne de l'URL: ">>
                                   \o (IF r.value THEN <<"OK">> ELSE <<"NON JOIGNABLE">>)))
                          /\ pc' = AfterCheck(r.value)
                          /\ UNCHANGED status
       ELSE /\ pc' = "config"
            /\ UNCHANGED <<probes, out, status>>
    /\ UNCHANGED <<argv, png_path, svg_path, cfg, qr_calls, dirs, files, gen,
                   out_png, out_svg>>

\* Lines 168-177: the QRConfig of the run.
BuildConfig ==
    /\ pc = "config"
    /\ cfg' = <<QRConfig(argv.url, argv.box_size, argv.border, Some(argv.ec_level),
                         png_path, svg_path, ~argv.no_check, argv.timeout)>>
    /\ pc' = "png"
    /\ UNCHANGED <<argv, png_path, svg_path, probes, qr_calls, dirs, files, gen,
                   out_png, out_svg, out, status>>

\* The body shared by make_qr_png (lines 96-112) and make_qr_svg (lines
\* 115-131) for the format fmt written to path: nothing when the path is
\* None; else the level is mapped, the encoder is called on the payload, the
\* parent directories are made and the image is saved.  res is the outcome,
\* an exception leaves main.
Generate(fmt, path, data, okpc, res) ==
    LET c == cfg[1]
        m == map_ec_level(c.ec_level)
    IN  /\ IF path.isNone
           THEN /\ res = "skipped"
                /\ UNCHANGED <<qr_calls, dirs, files>>
           ELSE IF m.raised
           THEN /\ res = "ec_error"
                /\ UNCHANGED <<qr_calls, dirs, files>>
           ELSE /\ res \in GenOutcomes
                /\ qr_calls' = Append(qr_calls,
                       [fmt |-> fmt, data |-> data, ec |-> m.ec,
                        box_size |-> c.box_size, border |-> c.border,
                        style |-> ImageStyle(fmt, c)])
                /\ dirs' = IF res \in {"ok", "save_error"}
                           THEN dirs \cup ParentDirs(path.v) ELSE dirs
                /\ files' = IF res = "ok"
                            THEN {f \in files : f.path # path.v}
                                   \cup {[path |-> path.v, fmt |-> fmt, data |-> data]}
                            ELSE files
        /\ gen' = [gen EXCEPT ![fmt] = res]
        /\ IF res \in {"skipped", "ok"}
           THEN /\ pc' = okpc
                /\ UNCHANGED <<out, status>>
           ELSE /\ pc' = "done"
                /\ status' = Uncaught
                /\ out' = Append(out, Line("stderr", "Traceback", <<res>>))

\* Line 179: out_png = make_qr_png(cfg)
make_qr_png ==
    /\ pc = "png"
    /\ \E res \in GenOutcomes \cup {"skipped", "ec_error"} :
         /\ Generate("png", cfg[1].png_path, QRData(cfg[1]), "svg", res)
         /\ out_png' = IF res = "ok" THEN cfg[1].png_path ELSE None
    /\ UNCHANGED <<argv, png_path, svg_path, cfg, probes, out_svg>>

\* Line 180: out_svg = make_qr_svg(cfg)
make_qr_svg ==
    /\ pc = "svg"
    /\ \E res \in GenOutcomes \cup {"skipped", "ec_error"} :
         /\ Generate("svg", cfg[1].svg_path, QRData(cfg[1]), "report", res)
         /\ out_svg' = IF res = "ok" THEN cfg[1].svg_path ELSE None
    /\ UNCHANGED <<argv, png_path, svg_path, cfg, probes, out_png>>

\* The lines 182-191 print for the outputs p and s.
ReportLines(p, s) ==
    (IF p.isNone THEN <<>> ELSE <<Line("stdout", "OK", <<"[OK] PNG généré: ">> \o p.v)>>)
      \o (IF s.isNone THEN <<>> ELSE <<Line("stdout", "OK", <<"[OK] SVG généré: ">> \o s.v)>>)
      \o (IF p.isNone /\ s.isNone
          THEN <<Line("stderr", "ATTENTION", <<"Aucune sortie demandée">>)>>
          ELSE <<Line("stdout", "Terminé", <<"Le QR code pointera vers l'URL encodée">>)>>)

\* Lines 182-192: one line per output, then the exit code.
Report ==
    /\ pc = "report"
    /\ out' = out \o ReportLines(out_png, out_svg)
    /\ status' = Returned(ReportCode(out_png, out_svg))
    /\ pc' = "done"
    /\ UNCHANGED <<argv, png_path, svg_path, cfg, probes, qr_calls, dirs, files,
                   gen, out_png, out_svg>>

Next ==
    \/ ParseArgs
    \/ Validate
    \/ CheckOnline
    \/ BuildConfig
    \/ make_qr_png
    \/ make_qr_svg
    \/ Report

\* One run of the command line tool.
Spec == Init /\ [][Next]_vars

---------------------------------------------------------------------------
(* validate_url alone, on every enumerated URL *)

\* The command line of `python make_qr.py --url <url> --png o`.
UrlArgv(url) ==
    [url |-> url, png |-> <<"o">>, svg |-> <<>>, ec_level |-> <<"Q">>,
     box_size |-> 1, border |-> 0, no_check |-> FALSE,
     timeout |-> CHOOSE t \in Timeouts : TRUE, help |-> FALSE]

\* main has parsed its arguments and is about to validate the URL.
InitUrl ==
    /\ argv \in {UrlArgv(u) : u \in Urls}
    /\ pc = "validate"
    /\ png_path = PathOfArg(argv.png)
    /\ svg_path = PathOfArg(argv.svg)
    /\ cfg = <<>>
    /\ Fresh

NextUrl == Validate

SpecUrl == InitUrl /\ [][NextUrl]_vars

---------------------------------------------------------------------------
(* make_qr_png and make_qr_svg called with a QRConfig of the caller's *)

LibUrl == <<"h", "t", "t", "p", "s", ":", "/", "/", "a">>
LibPaths == {None, Some(Resolve(<<"o">>)), Some(Resolve(<<"d", "/", "o">>))}

\* A caller has built a QRConfig with any selector and calls make_qr_png,
\* then make_qr_svg.
InitLib ==
    /\ argv = UrlArgv(LibUrl)
    /\ pc = "png"
    /\ png_path = None
    /\ svg_path = None
    /\ cfg \in {<<QRConfig(LibUrl, 1, 0, l, p, s, FALSE, 5)>> :
                  l \in EcLevels, p \in LibPaths, s \in LibPaths}
    /\ Fresh

NextLib ==
    \/ make_qr_png
    \/ make_qr_svg

SpecLib == InitLib /\ [][NextLib]_vars

---------------------------------------------------------------------------
(* The properties *)

\* The URL of the run passes validate_url.
UrlValid == ~validate_url(argv.url).raised

\* The run got past parse_args and past validate_url.
PastValidation ==
    /\ pc \notin {"parse", "validate"}
    /\ status.kind # "sysexit"

PngRequested == Strip(argv.png) # <<>>
SvgRequested == Strip(argv.svg) # <<>>

\* The lines of out with tag t.
LinesTagged(t) == {i \in DOMAIN out : out[i].tag = t}

\* u, after its leading blanks, starts with "http://" or "https://" in any
\* letter case, followed by a character of the host.
HasHttpPrefixAndHost(url) ==
    LET u == LStrip(url)
    IN  \E p \in {HTTP \o <<":", "/", "/">>, HTTPS \o <<":", "/", "/">>} :
          /\ Len(u) > Len(p)
          /\ Lower(SubSeq(u, 1, Len(p))) = p
          /\ u[Len(p) + 1] \notin {"/", "?", "#"}

\* C1: validate_url accepts a string exactly when its parsed scheme is http
\* or https and its netloc is not empty, and signals a ValueError (main prints
\* it and returns 2) for every other string; an accepted string starts with
\* http:// or https:// and a host character, and every such string without
\* brackets is accepted; validation issues no network request.
C1_ValidateAcceptsHttpWithHost ==
    pc # "validate" =>
      LET parsed == urlparse(argv.url)
          wellFormed == /\ ~parsed.raised
                        /\ parsed.scheme \in {HTTP, HTTPS}
                        /\ parsed.netloc # <<>>
      IN  /\ (pc = "check") <=> wellFormed
          /\ (pc = "done" /\ status = Returned(2) /\ LinesTagged("ERREUR") # {})
               <=> ~wellFormed
          /\ pc = "check" => HasHttpPrefixAndHost(argv.url)
          /\ (HasHttpPrefixAndHost(argv.url) /\ ~Has(argv.url, "[") /\ ~Has(argv.url, "]"))
               => pc = "check"
          /\ probes = <<>>

\* C1 witness: a URL with an upper-case scheme and a path was accepted.
C1_Witness ==
    /\ pc = "check"
    /\ Head(argv.url) = "H"
    /\ Len(argv.url) > 8

\* C2 as stated: the exit code is 2 exactly when validation fails, 1 exactly
\* when the URL is valid and no artifact was produced, 0 exactly when the URL
\* is valid and an artifact was produced.
C2_Original ==
    pc = "done" =>
      /\ status.code \in {0, 1, 2}
      /\ (status.code = 2) <=> ~UrlValid
      /\ (status.code = 1) <=> (UrlValid /\ files = {})
      /\ (status.code = 0) <=> (UrlValid /\ files # {})

\* C2 amended: every run ends with a status in {0, 1, 2}.  When main returns,
\* 2 is returned exactly when validation fails, 1 exactly when the URL is valid
\* and no artifact was produced, 0 exactly when the URL is valid and an
\* artifact was produced.  A run that ends without main returning ends with 0
\* (argparse, -h) or 2 (argparse, rejected option) before the URL is validated,
\* or with 1 when a generation step raises, whatever was produced before.
C2_ExitCodes ==
    pc = "done" =>
      /\ status.code \in {0, 1, 2}
      /\ status.kind \in {"returned", "sysexit", "raised"}
      /\ status.kind = "returned" =>
           /\ (status.code = 2) <=> ~UrlValid
           /\ (status.code = 1) <=> (UrlValid /\ files = {})
           /\ (status.code = 1) <=> (UrlValid /\ ~PngRequested /\ ~SvgRequested)
           /\ (status.code = 0) <=> (UrlValid /\ files # {})
      /\ status.kind = "sysexit" =>
           /\ status.code \in {0, 2}
           /\ (status.code = 0) => argv.help
           /\ (status.code = 2) => argv.ec_level \notin EcChoices
           /\ out_png = None /\ out_svg = None /\ files = {} /\ LinesTagged("ERREUR") = {}
      /\ status.kind = "raised" =>
           /\ status.code = 1
           /\ UrlValid
           /\ \E fmt \in {"png", "svg"} : gen[fmt] \in GenOutcomes \ {"ok"}

\* C2 witness: main returned 0 after writing both artifacts.
C2_Witness ==
    /\ pc = "done"
    /\ status = Returned(0)
    /\ Cardinality(files) = 2

\* C3 as stated: a run whose URL fails validation returns 2, has written no
\* file, made no directory, issued no probe, called no encoder, and its error
\* line names the URL.
C3_Original ==
    (PastValidation /\ ~UrlValid) =>
      /\ pc = "done"
      /\ status = Returned(2)
      /\ files = {} /\ dirs = InitDirs /\ probes = <<>> /\ qr_calls = <<>>
      /\ \E i \in LinesTagged("ERREUR") : Contains(out[i].text, argv.url)

\* The paths that hold a file of this run.
WrittenPaths == {f.path : f \in files}

\* The resolved paths of the outputs the command line asks for.
RequestedPaths ==
    (IF PngRequested THEN {Resolve(argv.png)} ELSE {})
      \cup (IF SvgRequested THEN {Resolve(argv.svg)} ELSE {})

PathsWritten(p, s) ==
    (IF PngRequested /\ p = "ok" THEN {Resolve(argv.png)} ELSE {})
      \cup (IF SvgRequested /\ s = "ok" THEN {Resolve(argv.svg)} ELSE {})

OutWithoutInfo == SelectSeq(out, LAMBDA l : l.tag # "Info")

\* What a run on argv prints, apart from the reachability line, when its
\* generations ended as p and s.
ExpectedLines(p, s) ==
    IF p \in {"ok", "skipped"} /\ s \in {"ok", "skipped"}
    THEN ReportLines(IF p = "ok" THEN Some(Resolve(argv.png)) ELSE None,
                     IF s = "ok" THEN Some(Resolve(argv.svg)) ELSE None)
    ELSE <<Line("stderr", "Traceback", <<IF p \in {"ok", "skipped"} THEN s ELSE p>>)>>

\* C5: the reachability result never gates generation.  In every finished run
\* that got past validation, the generations attempted, the files and their
\* contents, the exit status and every line but the reachability line are
\* those a function of the arguments and of the answers of the encoder and
\* the file system gives, whatever the probe answered.
C5_ReachabilityNeverGates ==
    (pc = "done" /\ PastValidation /\ UrlValid) =>
      /\ gen.png \in (IF PngRequested THEN GenOutcomes ELSE {"skipped"})
      /\ gen.svg \in (IF gen.png \notin {"ok", "skipped"} THEN {"none"}
                      ELSE IF SvgRequested THEN GenOutcomes ELSE {"skipped"})
      /\ files = {[path |-> q, fmt |-> IF SvgRequested /\ gen.svg = "ok" /\ q = Resolve(argv.svg)
                                       THEN "svg" ELSE "png",
                   data |-> argv.url] : q \in PathsWritten(gen.png, gen.svg)}
      /\ status = (IF gen.png \in {"ok", "skipped"} /\ gen.svg \in {"ok", "skipped"}
                   THEN Returned(IF gen.png = "skipped" /\ gen.svg = "skipped" THEN 1 ELSE 0)
                   ELSE Uncaught)
      /\ OutWithoutInfo = ExpectedLines(gen.png, gen.svg)

\* C5 witness: the probe answered "not reachable" and the run wrote its PNG
\* and returned 0.
C5_Witness ==
    /\ pc = "done"
    /\ Len(probes) = 1
    /\ ~probes[1].value
    /\ status = Returned(0)
    /\ \E f \in files : f.fmt = "png"

\* C6 as stated: check_reachability never raises, and answers true exactly
\* when the HEAD request completes with a response status in [200, 400).
C6_Original ==
    \A i \in DOMAIN probes :
      /\ ~probes[i].raised
      /\ probes[i].value <=> /\ probes[i].net.kind = "status"
                             /\ 200 <= probes[i].net.status
                             /\ probes[i].net.status < 400

\* The selector a caller gave is one of the letters, in either case.
IsEcLetter(l) ==
    l \in {<<"L">>, <<"l">>, <<"M">>, <<"m">>, <<"Q">>, <<"q">>, <<"H">>, <<"h">>}

\* The encoder constant of a letter, in either case.
EcOfLetter(l) ==
    CASE l \in {<<"L">>, <<"l">>} -> "ERROR_CORRECT_L"
      [] l \in {<<"M">>, <<"m">>} -> "ERROR_CORRECT_M"
      [] l \in {<<"Q">>, <<"q">>} -> "ERROR_CORRECT_Q"
      [] l \in {<<"H">>, <<"h">>} -> "ERROR_CORRECT_H"

\* A generation that mapped the level: it was asked for and has run.
Mapped(fmt) == gen[fmt] \notin {"none", "skipped"}

\* C7 as stated: the mapper accepts L, M, Q, H in either case, takes None and
\* "" as Q, and fails for every other selector.
C7_Original ==
    \A fmt \in {"png", "svg"} :
      Mapped(fmt) =>
        LET level == cfg[1].ec_level
        IN  (gen[fmt] # "ec_error")
              <=> (level.isNone \/ level.v = <<>> \/ IsEcLetter(level.v))

\* C7 amended: the mapper strips the blanks around the selector first.  It
\* maps L, M, Q, H, in either case and with any blanks around, to the
\* corresponding constant, maps None and "" to the constant of Q, and fails
\* for every selector whose stripped form is not one of the four letters
\* (a selector of blanks only included); when it fails inside make_qr_png or
\* make_qr_svg, no encoder was called, no directory made and no file written.
C7_MapEcLevel ==
    \A fmt \in {"png", "svg"} :
      Mapped(fmt) =>
        LET level == cfg[1].ec_level
            unspecified == level.isNone \/ level.v = <<>>
        IN  /\ (gen[fmt] # "ec_error") <=> (unspecified \/ IsEcLetter(Strip(level.v)))
            /\ gen[fmt] # "ec_error" =>
                 \A i \in DOMAIN qr_calls :
                   qr_calls[i].ec = IF unspecified THEN "ERROR_CORRECT_Q"
                                    ELSE EcOfLetter(Strip(level.v))
            /\ gen[fmt] = "ec_error" =>
                 /\ qr_calls = <<>> /\ dirs = InitDirs /\ files = {}
                 /\ status = Uncaught

\* C7 witness: a lower-case selector with a blank before it was mapped and the
\* PNG written.
C7_Witness ==
    /\ gen.png = "ok"
    /\ cfg[1].ec_level = Some(<<" ", "m">>)
    /\ qr_calls[1].ec = "ERROR_CORRECT_M"

\* C8: the payload of every encoder call, PNG or SVG, is the --url argument
\* as it passed validation, untouched; every call of a run has the level and
\* the border of the arguments, so both artifacts share them; the file
\* written holds that payload, whatever the module size.
C8_PayloadIsUrl ==
    /\ qr_calls # <<>> => (PastValidation /\ UrlValid)
    /\ \A i \in DOMAIN qr_calls :
         /\ qr_calls[i].data = argv.url
         /\ qr_calls[i].ec = EcOfLetter(argv.ec_level)
         /\ qr_calls[i].border = argv.border
         /\ qr_calls[i].box_size = argv.box_size
    /\ \A i, j \in DOMAIN qr_calls :
         /\ qr_calls[i].ec = qr_calls[j].ec
         /\ qr_calls[i].border = qr_calls[j].border
    /\ \A f \in files : f.data = argv.url

\* C8 witness: a URL with a leading blank was encoded twice, as PNG and as SVG.
C8_Witness ==
    /\ Len(qr_calls) = 2
    /\ qr_calls[1].fmt = "png" /\ qr_calls[2].fmt = "svg"
    /\ Head(argv.url) = " "
    /\ Cardinality(files) = 2

\* The "[OK] ... généré" lines naming the artifact of format fmt at path.
OkLines(label, path) ==
    {i \in LinesTagged("OK") : out[i].text = <<label>> \o path}

\* C9 as stated: in every finished run, each artifact written to disk has one
\* "[OK] ... généré" line naming its resolved path, and an artifact that was
\* not written has none.
C9_Original ==
    (pc = "done" /\ PastValidation /\ UrlValid) =>
      /\ gen.png = "ok" => Cardinality(OkLines("[OK] PNG généré: ", Resolve(argv.png))) = 1
      /\ gen.svg = "ok" => Cardinality(OkLines("[OK] SVG généré: ", Resolve(argv.svg))) = 1
      /\ Cardinality(LinesTagged("OK"))
           = Cardinality({fmt \in {"png", "svg"} : gen[fmt] = "ok"})

\* The order of the lines of one run.
TagRank(t) ==
    CASE t = "usage" -> 0
      [] t = "ERREUR" -> 1
      [] t = "Info" -> 2
      [] t = "Traceback" -> 3
      [] t = "OK" -> 3
      [] t = "ATTENTION" -> 4
      [] t = "Terminé" -> 4

\* C10: one run validates, then probes, then makes the PNG, then the SVG,
\* then reports.  With --no-check no probe is issued and no reachability line
\* printed.  Without it a run that gets past validation issues exactly one
\* probe (of the validated URL, with the timeout given) and prints exactly one
\* reachability line; the probe is never issued before validation has
\* succeeded, and the encoder is not called, no directory made and no file
\* written before the probe.
C10_Order ==
    /\ Len(probes) <= 1
    /\ Cardinality(LinesTagged("Info")) = Len(probes)
    /\ argv.no_check => probes = <<>>
    /\ probes # <<>> =>
         /\ PastValidation /\ UrlValid /\ pc # "check"
         /\ probes[1].url = argv.url /\ probes[1].timeout = argv.timeout
    /\ (~argv.no_check /\ PastValidation /\ UrlValid /\ pc # "check") => Len(probes) = 1
    /\ pc \in {"parse", "validate", "check", "config"} =>
         (qr_calls = <<>> /\ files = {} /\ dirs = InitDirs /\ cfg = <<>>)
    /\ pc \in {"parse", "validate"} => out = <<>>
    /\ [i \in DOMAIN qr_calls |-> qr_calls[i].fmt]
         \in {<<>>, <<"png">>, <<"svg">>, <<"png", "svg">>}
    /\ (\E i \in DOMAIN qr_calls : qr_calls[i].fmt = "svg") => gen.png \in {"ok", "skipped"}
    /\ \A i, j \in DOMAIN out : i < j => TagRank(out[i].tag) <= TagRank(out[j].tag)
    /\ LinesTagged("OK") # {} => (pc = "done" /\ gen.svg \in {"ok", "skipped"})

\* C10 witness: without --no-check, one probe was issued and both artifacts
\* were written and reported after it.
C10_Witness ==
    /\ pc = "done"
    /\ ~argv.no_check
    /\ Len(probes) = 1
    /\ Cardinality(files) = 2
    /\ Cardinality(LinesTagged("Info")) = 1
    /\ Cardinality(LinesTagged("OK")) = 2

====
